---- MODULE Spec2Model ----
(***************************************************************************)
(* Greedy carpooling matcher of src/simulation.py: match_algorithm and the *)
(* entities it mutates.                                                    *)
(*                                                                         *)
(* Coordinates are <<lat, lon>> pairs on one meridian (lon = 0) with the   *)
(* latitude counted in kilometres of arc, so that the haversine formula    *)
(* reduces to R * |dlat| and distances are whole kilometres.               *)
(* Money is kept as exact fractions [num, den] (Python computes floats).   *)
(* Objects are handles 1..N; None is -1.                                   *)
(***************************************************************************)
EXTENDS Integers, Sequences, FiniteSets, TLC

\* ---- configuration (src/simulation.py lines 15-18) ----
SEARCH_RADIUS_KM == 1
PRICE_BASE == 100
MARKUP_PERCENT == [num |-> 20, den |-> 100]

\* ---- bounds of the model ----
NumDrivers == 2
NumPassengers == 3
MaxLat == 2
MaxRuns == 2

None == -1

\* MAX_CAPACITY is a module-level setting read by Driver.__init__; the source
\* ships 4, the model also runs the configuration 2.
CapacityChoices == {2, 4}

Coords == {<<lat, 0>> : lat \in 0..MaxLat}
DriverInputs ==
  {[origin |-> <<o, 0>>, dest |-> <<e, 0>>, schedule |-> s] :
     o \in {0, 1}, e \in {0, 1}, s \in {8, 9}}
PassengerInputs ==
  {[origin |-> c, dest |-> t.dest, schedule |-> t.schedule] :
     c \in Coords,
     t \in {[dest |-> <<1, 0>>, schedule |-> 8], [dest |-> <<2, 0>>, schedule |-> 10]}}

VARIABLES
  MAX_CAPACITY,   \* the configured seats per car
  drivers,        \* the caller's driver list (handles, in list order)
  passengers,     \* the caller's passenger list (handles, in list order)
  Driver,         \* handle -> Driver object
  Passenger,      \* handle -> Passenger object
  match_details,  \* the list match_algorithm builds and returns
  pc,             \* position in match_algorithm
  di,             \* index of the driver loop in drivers
  candidates,     \* the ranked candidate list of the current driver
  selected,       \* candidates[:slots]
  si,             \* index of the assignment loop in selected
  runs,           \* completed calls of match_algorithm
  mode,           \* how the current call was started: "first", "rerun", "restart"
  first,          \* what the first call left behind (recorded when it returns)
  drivers_in,     \* the driver list as it was passed to the current call
  stats           \* what the aggregator called after the engine computed

vars == <<MAX_CAPACITY, drivers, passengers, Driver, Passenger, match_details,
          pc, di, candidates, selected, si, runs, mode, first, drivers_in, stats>>

\* ---- arithmetic helpers ----
Abs(x) == IF x < 0 THEN -x ELSE x

RECURSIVE GCD(_, _)
GCD(a, b) == IF b = 0 THEN a ELSE GCD(b, a % b)

\* fractions are kept in lowest terms
Rat(n, d) == [num |-> n \div GCD(n, d), den |-> d \div GCD(n, d)]
RatAdd(a, b) == Rat(a.num * b.den + b.num * a.den, a.den * b.den)
RatMul(a, b) == Rat(a.num * b.num, a.den * b.den)
RatEq(a, b) == a.num * b.den = b.num * a.den

\* ---- haversine (lines 70-81), on a meridian ----
\* with dlon = 0: a = sin(dlat/2)^2, c = 2*atan2(sqrt(a), sqrt(1-a)) = |dlat|,
\* R * c = R * |dlat|; a latitude step of the model is 1 km of arc
haversine(coord1, coord2) == Abs(coord2[1] - coord1[1])

\* ---- entities (lines 31-66) ----
NewDriver(uid, origin, dest, schedule, cap) ==
  [id |-> uid, origin |-> origin, dest |-> dest, schedule |-> schedule,
   capacity |-> cap, passengers |-> <<>>]

NewPassenger(uid, origin, dest, schedule) ==
  [id |-> uid, origin |-> origin, dest |-> dest, schedule |-> schedule,
   matched_driver |-> None, pickup_distance |-> None, dropoff_distance |-> None,
   fare |-> Rat(0, 1), rejection_reasons |-> <<>>]

InitWith(capacities, driver_inputs, passenger_inputs) ==
  /\ MAX_CAPACITY \in capacities
  /\ \E nd \in 0..NumDrivers :
       /\ drivers = [i \in 1..nd |-> i]
       /\ drivers_in = [i \in 1..nd |-> i]
       /\ \E din \in [1..nd -> driver_inputs] :
            Driver = [d \in 1..nd |->
                        NewDriver(d - 1, din[d].origin, din[d].dest, din[d].schedule,
                                  MAX_CAPACITY)]
  /\ \E np \in 0..NumPassengers :
       /\ passengers = [i \in 1..np |-> i]
       /\ \E pin \in [1..np -> passenger_inputs] :
            Passenger = [p \in 1..np |->
                           NewPassenger(p - 1, pin[p].origin, pin[p].dest,
                                        pin[p].schedule)]
  /\ match_details = <<>>
  /\ pc = "precompute"
  /\ di = 1
  /\ candidates = <<>>
  /\ selected = <<>>
  /\ si = 1
  /\ runs = 0
  /\ mode = "first"
  /\ first = [drivers |-> <<>>, match_details |-> <<>>, Driver |-> <<>>,
              Passenger |-> <<>>]
  /\ stats = [fn |-> "none", outcome |-> "none"]

Init == InitWith(CapacityChoices, DriverInputs, PassengerInputs)

\* the pools of the termination check: two-seat cars, drivers that differ in
\* origin only, passengers that differ in origin only
LiveDriverInputs == {r \in DriverInputs : r.dest = <<0, 0>> /\ r.schedule = 8}
LivePassengerInputs == {r \in PassengerInputs : r.schedule = 8}
InitLive == InitWith({2}, LiveDriverInputs, LivePassengerInputs)

\* mutant of the reasons: an elif chain, only the first failing rule is recorded
Reasons_FirstOnly(d, p) ==
  IF haversine(d.origin, p.origin) > SEARCH_RADIUS_KM THEN <<"Origin too far">>
  ELSE IF haversine(d.dest, p.dest) > SEARCH_RADIUS_KM THEN <<"Destination too far">>
  ELSE IF Abs(d.schedule - p.schedule) > 1 THEN <<"Schedule mismatch">>
  ELSE <<>>

\* ---- rejection analysis, lines 184-205 ----
Reasons(d, p) ==
  (IF haversine(d.origin, p.origin) > SEARCH_RADIUS_KM
     THEN <<"Origin too far">> ELSE <<>>)
  \o (IF haversine(d.dest, p.dest) > SEARCH_RADIUS_KM
        THEN <<"Destination too far">> ELSE <<>>)
  \o (IF Abs(d.schedule - p.schedule) > 1
        THEN <<"Schedule mismatch">> ELSE <<>>)

Verdict(d, p) ==
  [driver_id |-> d.id,
   pickup_distance |-> haversine(d.origin, p.origin),
   dropoff_distance |-> haversine(d.dest, p.dest),
   reasons |-> Reasons(d, p),
   is_compatible |-> Len(Reasons(d, p)) = 0]

\* mutant of the analysis: only the drivers that reject the passenger get an entry
IsRejection(v) == ~v.is_compatible
RejectionAnalysis_OnlyRejected(p) ==
  SelectSeq([i \in 1..Len(drivers) |-> Verdict(Driver[drivers[i]], p)], IsRejection)

RejectionAnalysis(p) ==
  [i \in 1..Len(drivers) |-> Verdict(Driver[drivers[i]], p)]

Precompute ==
  /\ pc = "precompute"
  /\ Passenger' = [p \in DOMAIN Passenger |->
                     [Passenger[p] EXCEPT !.rejection_reasons =
                                             RejectionAnalysis(Passenger[p])]]
  /\ pc' = "shuffle"
  /\ UNCHANGED <<MAX_CAPACITY, drivers, passengers, Driver, match_details,
                 di, candidates, selected, si, runs, mode, first,
                 drivers_in, stats>>

\* ---- random.shuffle(drivers), line 208 ----
\* mutant of the shuffle: the list is refilled by drawing with replacement
\* (random.choices), so a driver may be dropped and another repeated
Shuffle_WithReplacement ==
  /\ pc = "shuffle"
  /\ drivers' \in [1..Len(drivers) -> {drivers[i] : i \in 1..Len(drivers)}]
  /\ pc' = "loop"
  /\ di' = 1
  /\ UNCHANGED <<MAX_CAPACITY, passengers, Driver, Passenger, match_details,
                 candidates, selected, si, runs, mode, first,
                 drivers_in, stats>>

Shuffle ==
  /\ pc = "shuffle"
  /\ \E perm \in Permutations(1..Len(drivers)) :
       drivers' = [i \in 1..Len(drivers) |-> drivers[perm[i]]]
  /\ pc' = "loop"
  /\ di' = 1
  /\ UNCHANGED <<MAX_CAPACITY, passengers, Driver, Passenger, match_details,
                 candidates, selected, si, runs, mode, first,
                 drivers_in, stats>>

\* mutant of the skip: the loop position does not advance past a full driver
SkipDriver_NoAdvance ==
  /\ pc = "loop"
  /\ di <= Len(drivers)
  /\ Driver[drivers[di]].capacity = 0
  /\ UNCHANGED vars

\* ---- the driver loop, lines 210-254 ----
\* mutant of the skip: a driver without a free seat is emptied and takes its turn
SkipDriver_Refill ==
  /\ pc = "loop"
  /\ di <= Len(drivers)
  /\ Driver[drivers[di]].capacity = 0
  /\ Driver' = [Driver EXCEPT ![drivers[di]] =
                  [@ EXCEPT !.capacity = MAX_CAPACITY, !.passengers = <<>>]]
  /\ UNCHANGED <<MAX_CAPACITY, drivers, passengers, Passenger,
                 match_details, pc, di, candidates, selected, si, runs, mode, first,
                 drivers_in, stats>>

SkipDriver ==
  /\ pc = "loop"
  /\ di <= Len(drivers)
  /\ Driver[drivers[di]].capacity = 0
  /\ di' = di + 1
  /\ UNCHANGED <<MAX_CAPACITY, drivers, passengers, Driver, Passenger,
                 match_details, pc, candidates, selected, si, runs, mode, first,
                 drivers_in, stats>>

\* mutants of the filter: a passenger is taken whatever its match state; the
\* destination rule is left out; the schedule rule is left out; the schedule
\* rule of ver1 (exact match)
IsCandidate_IgnoreMatched(d, p) ==
  /\ ~(haversine(d.origin, p.origin) > SEARCH_RADIUS_KM)
  /\ ~(haversine(d.dest, p.dest) > SEARCH_RADIUS_KM)
  /\ ~(Abs(d.schedule - p.schedule) > 1)

IsCandidate_NoDestination(d, p) ==
  /\ p.matched_driver = None
  /\ ~(haversine(d.origin, p.origin) > SEARCH_RADIUS_KM)
  /\ ~(Abs(d.schedule - p.schedule) > 1)

IsCandidate_NoSchedule(d, p) ==
  /\ p.matched_driver = None
  /\ ~(haversine(d.origin, p.origin) > SEARCH_RADIUS_KM)
  /\ ~(haversine(d.dest, p.dest) > SEARCH_RADIUS_KM)

IsCandidate_ExactSchedule(d, p) ==
  /\ p.matched_driver = None
  /\ ~(haversine(d.origin, p.origin) > SEARCH_RADIUS_KM)
  /\ ~(haversine(d.dest, p.dest) > SEARCH_RADIUS_KM)
  /\ ~(d.schedule # p.schedule)

\* lines 216-228: the filter of one passenger
IsCandidate(d, p) ==
  /\ p.matched_driver = None
  /\ ~(haversine(d.origin, p.origin) > SEARCH_RADIUS_KM)
  /\ ~(haversine(d.dest, p.dest) > SEARCH_RADIUS_KM)
  /\ ~(Abs(d.schedule - p.schedule) > 1)

\* lines 214-230: candidates in the passenger list's order
RECURSIVE CollectCandidates(_, _)
CollectCandidates(d, i) ==
  IF i > Len(passengers) THEN <<>>
  ELSE LET p == Passenger[passengers[i]] IN
       (IF IsCandidate(d, p)
          THEN << <<passengers[i], haversine(d.origin, p.origin),
                    haversine(d.dest, p.dest)>> >>
          ELSE <<>>)
       \o CollectCandidates(d, i + 1)

\* line 232: list.sort(key = x[1] + x[2]), a stable ascending sort
SortKey(x) == x[2] + x[3]

\* mutant of the sort's tie rule: equal keys keep pool order in the first call
\* only, later calls put the later one first (an order that is not a function
\* of the list being sorted)
RECURSIVE InsertByKey_TieByCall(_, _)
InsertByKey_TieByCall(x, s) ==
  IF s = <<>> THEN <<x>>
  ELSE IF \/ SortKey(s[Len(s)]) < SortKey(x)
          \/ (SortKey(s[Len(s)]) = SortKey(x) /\ mode = "first")
         THEN Append(s, x)
  ELSE Append(InsertByKey_TieByCall(x, SubSeq(s, 1, Len(s) - 1)), s[Len(s)])

\* mutant of the sort's tie rule: of two equal keys the later one goes first
RECURSIVE InsertByKey_LaterFirst(_, _)
InsertByKey_LaterFirst(x, s) ==
  IF s = <<>> THEN <<x>>
  ELSE IF SortKey(s[Len(s)]) < SortKey(x) THEN Append(s, x)
  ELSE Append(InsertByKey_LaterFirst(x, SubSeq(s, 1, Len(s) - 1)), s[Len(s)])

RECURSIVE InsertByKey(_, _)
InsertByKey(x, s) ==
  IF s = <<>> THEN <<x>>
  ELSE IF SortKey(s[Len(s)]) <= SortKey(x) THEN Append(s, x)
  ELSE Append(InsertByKey(x, SubSeq(s, 1, Len(s) - 1)), s[Len(s)])

\* mutant of the sort: descending (reverse = True)
RECURSIVE InsertByKeyDescending(_, _)
InsertByKeyDescending(x, s) ==
  IF s = <<>> THEN <<x>>
  ELSE IF SortKey(s[Len(s)]) >= SortKey(x) THEN Append(s, x)
  ELSE Append(InsertByKeyDescending(x, SubSeq(s, 1, Len(s) - 1)), s[Len(s)])

RECURSIVE SortCandidates_Descending(_)
SortCandidates_Descending(s) ==
  IF s = <<>> THEN <<>>
  ELSE InsertByKeyDescending(s[Len(s)],
                             SortCandidates_Descending(SubSeq(s, 1, Len(s) - 1)))

\* mutant of the sort: the candidates stay in pool order
SortCandidates_Unsorted(s) == s

RECURSIVE SortCandidates(_)
SortCandidates(s) ==
  IF s = <<>> THEN <<>>
  ELSE InsertByKey(s[Len(s)], SortCandidates(SubSeq(s, 1, Len(s) - 1)))

\* mutant of the slice: one seat too few, candidates[:slots - 1]
Slice_OneShort(s, n) ==
  SubSeq(s, 1, IF n - 1 < Len(s) THEN (IF n - 1 > 0 THEN n - 1 ELSE 0) ELSE Len(s))

\* mutant of the slice: the last n candidates, candidates[-slots:]
Slice_FromEnd(s, n) ==
  SubSeq(s, (IF n < Len(s) THEN Len(s) - n ELSE 0) + 1, Len(s))

\* mutant of the slice: every candidate is selected
Slice_All(s, n) == s

\* line 235: the slice s[:n]
Slice(s, n) ==
  IF n >= 0 THEN SubSeq(s, 1, IF n < Len(s) THEN n ELSE Len(s))
  ELSE SubSeq(s, 1, IF Len(s) + n > 0 THEN Len(s) + n ELSE 0)

BuildCandidates ==
  /\ pc = "loop"
  /\ di <= Len(drivers)
  /\ Driver[drivers[di]].capacity # 0
  /\ LET d == Driver[drivers[di]]
         ranked == SortCandidates(CollectCandidates(d, 1))
         sel == Slice(ranked, d.capacity)
     IN /\ candidates' = ranked
        /\ selected' = sel
        /\ si' = 1
        /\ IF sel = <<>>
             THEN pc' = "loop" /\ di' = di + 1
             ELSE pc' = "assign" /\ di' = di
  /\ UNCHANGED <<MAX_CAPACITY, drivers, passengers, Driver, Passenger,
                 match_details, runs, mode, first,
                 drivers_in, stats>>

\* line 245
ride_cost == RatAdd(Rat(PRICE_BASE, 4), RatMul(Rat(PRICE_BASE, 1), MARKUP_PERCENT))

\* mutant of the passenger's side: the two distances are stored the wrong way round
AssignPassenger_SwapDistances(p, dh, dist_origin, dist_dest) ==
  [p EXCEPT !.matched_driver = dh,
            !.pickup_distance = dist_dest,
            !.dropoff_distance = dist_origin,
            !.fare = ride_cost]

\* mutant of the passenger's side: the fare is not stored on the passenger
AssignPassenger_NoFare(p, dh, dist_origin, dist_dest) ==
  [p EXCEPT !.matched_driver = dh,
            !.pickup_distance = dist_origin,
            !.dropoff_distance = dist_dest]

\* lines 239-241, 246: the passenger's side of one assignment
AssignPassenger(p, dh, dist_origin, dist_dest) ==
  [p EXCEPT !.matched_driver = dh,
            !.pickup_distance = dist_origin,
            !.dropoff_distance = dist_dest,
            !.fare = ride_cost]

\* mutant of the driver's side: the passenger is not added to the driver's list
AssignDriver_NoAppend(d, ph) ==
  [d EXCEPT !.capacity = @ - 1]

\* mutant of the driver's side: the seat count is not decremented
AssignDriver_NoDecrement(d, ph) ==
  [d EXCEPT !.passengers = Append(@, ph)]

\* lines 242-243: the driver's side of one assignment
AssignDriver(d, ph) ==
  [d EXCEPT !.passengers = Append(@, ph), !.capacity = @ - 1]

\* lines 248-254
MatchRecord(dh, ph, dist_origin, dist_dest) ==
  [driver |-> dh, passenger |-> ph, pickup_dist |-> dist_origin,
   dropoff_dist |-> dist_dest, fare |-> ride_cost]

Assign ==
  /\ pc = "assign"
  /\ si <= Len(selected)
  /\ LET dh == drivers[di]
         ph == selected[si][1]
         dist_origin == selected[si][2]
         dist_dest == selected[si][3]
     IN /\ Passenger' = [Passenger EXCEPT
                           ![ph] = AssignPassenger(@, dh, dist_origin, dist_dest)]
        /\ Driver' = [Driver EXCEPT ![dh] = AssignDriver(@, ph)]
        /\ match_details' =
             Append(match_details, MatchRecord(dh, ph, dist_origin, dist_dest))
  /\ IF si = Len(selected)
       THEN pc' = "loop" /\ di' = di + 1
       ELSE pc' = "assign" /\ di' = di
  /\ si' = si + 1
  /\ UNCHANGED <<MAX_CAPACITY, drivers, passengers, candidates, selected, runs,
                 mode, first,
                 drivers_in, stats>>

\* ---- lines 256-265: flag the matched driver's verdict, return ----
WithMatched(reason, flag) ==
  [k \in DOMAIN reason \cup {"matched"} |->
     IF k = "matched" THEN flag ELSE reason[k]]

\* mutant of the flag update: the verdict's driver_id is compared with the
\* matched driver's position instead of its id
UpdateMatched_ByHandle(p) ==
  IF p.matched_driver # None
    THEN [p EXCEPT !.rejection_reasons =
            [i \in DOMAIN @ |-> WithMatched(@[i], @[i].driver_id = p.matched_driver)]]
    ELSE p

\* mutant of the flag update: every verdict of a matched passenger is flagged True
UpdateMatched_FlagAll(p) ==
  IF p.matched_driver # None
    THEN [p EXCEPT !.rejection_reasons =
            [i \in DOMAIN @ |-> WithMatched(@[i], TRUE)]]
    ELSE p

UpdateMatched(p) ==
  IF p.matched_driver # None
    THEN [p EXCEPT !.rejection_reasons =
            [i \in DOMAIN @ |->
               WithMatched(@[i], @[i].driver_id = Driver[p.matched_driver].id)]]
    ELSE p

Finish ==
  /\ pc = "loop"
  /\ di > Len(drivers)
  /\ Passenger' = [p \in DOMAIN Passenger |-> UpdateMatched(Passenger[p])]
  /\ pc' = "done"
  /\ runs' = runs + 1
  /\ first' = IF runs = 0
                THEN [drivers |-> drivers, match_details |-> match_details,
                      Driver |-> Driver, Passenger |-> Passenger']
                ELSE first
  /\ UNCHANGED <<MAX_CAPACITY, drivers, passengers, Driver, match_details,
                 di, candidates, selected, si, mode,
                 drivers_in, stats>>

\* ---- a further call of match_algorithm on the same lists (line 181) ----
Rerun ==
  /\ pc = "done"
  /\ runs < MaxRuns
  /\ match_details' = <<>>
  /\ pc' = "precompute"
  /\ di' = 1
  /\ candidates' = <<>>
  /\ selected' = <<>>
  /\ si' = 1
  /\ mode' = "rerun"
  /\ drivers_in' = drivers
  /\ UNCHANGED <<MAX_CAPACITY, drivers, passengers, Driver, Passenger, runs, first,
                 stats>>

\* ---- a call of match_algorithm on an identical, newly built population ----
\* (generate_random_pool lines 147-170 with the same draws: ids in list order)
Restart ==
  /\ pc = "done"
  /\ runs < MaxRuns
  /\ drivers' = [i \in 1..Len(drivers) |-> i]
  /\ Driver' = [d \in DOMAIN Driver |->
                  NewDriver(Driver[d].id, Driver[d].origin, Driver[d].dest,
                            Driver[d].schedule, MAX_CAPACITY)]
  /\ Passenger' = [p \in DOMAIN Passenger |->
                     NewPassenger(Passenger[p].id, Passenger[p].origin,
                                  Passenger[p].dest, Passenger[p].schedule)]
  /\ match_details' = <<>>
  /\ pc' = "precompute"
  /\ di' = 1
  /\ candidates' = <<>>
  /\ selected' = <<>>
  /\ si' = 1
  /\ mode' = "restart"
  /\ drivers_in' = [i \in 1..Len(drivers) |-> i]
  /\ UNCHANGED <<MAX_CAPACITY, passengers, runs, first, stats>>

\* ---- the aggregators, called on what match_algorithm left (main, lines 1586-1593) ----
\* x / n * 100 as an exact fraction
Percent(x, n) == Rat(100 * x, n)

ZeroDivisionError(fname) == [fn |-> fname, outcome |-> "ZeroDivisionError"]

\* sum(1 for d in drivers if len(d.passengers) == n), lines 1535-1539
CarsWith(n) ==
  Cardinality({i \in 1..Len(drivers) : Len(Driver[drivers[i]].passengers) = n})

\* sum(1 for d in drivers if len(d.passengers) > 0), lines 331, 1540
ActiveCars ==
  Cardinality({i \in 1..Len(drivers) : Len(Driver[drivers[i]].passengers) > 0})

\* the passengers with a matched driver, lines 329, 1532
MatchedPassengers ==
  {i \in 1..Len(passengers) : Passenger[passengers[i]].matched_driver # None}

\* the passengers without one, line 1533
UnmatchedPassengers ==
  {i \in 1..Len(passengers) : Passenger[passengers[i]].matched_driver = None}

\* sum(len(d.passengers) for d in drivers), line 332
RECURSIVE SeatsUsed(_)
SeatsUsed(i) ==
  IF i > Len(drivers) THEN 0
  ELSE Len(Driver[drivers[i]].passengers) + SeatsUsed(i + 1)

\* sum(p.fare for p in passengers if p.matched_driver), line 333
RECURSIVE TotalRevenue(_)
TotalRevenue(i) ==
  IF i > Len(passengers) THEN Rat(0, 1)
  ELSE IF Passenger[passengers[i]].matched_driver # None
         THEN RatAdd(Passenger[passengers[i]].fare, TotalRevenue(i + 1))
         ELSE TotalRevenue(i + 1)

\* print_matching_results, lines 1526-1563: the values it prints, in the order
\* it evaluates them; a division by an empty list's length raises
PrintMatchingResultsStats ==
  IF Len(passengers) = 0 THEN ZeroDivisionError("print_matching_results")
  ELSE IF Len(drivers) = 0 THEN ZeroDivisionError("print_matching_results")
  ELSE
    [fn |-> "print_matching_results",
     outcome |-> "ok",
     total_drivers |-> Len(drivers),
     total_passengers |-> Len(passengers),
     matched |-> Cardinality(MatchedPassengers),
     unmatched |-> Cardinality(UnmatchedPassengers),
     matched_pct |-> Percent(Cardinality(MatchedPassengers), Len(passengers)),
     unmatched_pct |-> Percent(Cardinality(UnmatchedPassengers), Len(passengers)),
     full_cars |-> CarsWith(MAX_CAPACITY),
     cars_with_3 |-> CarsWith(3),
     cars_with_2 |-> CarsWith(2),
     cars_with_1 |-> CarsWith(1),
     empty_cars |-> CarsWith(0),
     active_cars |-> ActiveCars,
     full_pct |-> Percent(CarsWith(MAX_CAPACITY), Len(drivers)),
     empty_pct |-> Percent(CarsWith(0), Len(drivers)),
     active_pct |-> Percent(ActiveCars, Len(drivers)),
     total_capacity |-> Len(drivers) * MAX_CAPACITY,
     used_capacity |-> Cardinality(MatchedPassengers),
     fleet_occupancy |->
       IF Len(drivers) * MAX_CAPACITY > 0
         THEN Percent(Cardinality(MatchedPassengers), Len(drivers) * MAX_CAPACITY)
         ELSE Rat(0, 1)]

\* export_visualization_data, lines 326-334: its 'statistics' block
ExportVisualizationDataStats ==
  IF Len(drivers) * MAX_CAPACITY = 0
    THEN ZeroDivisionError("export_visualization_data")
  ELSE
    [fn |-> "export_visualization_data",
     outcome |-> "ok",
     total_drivers |-> Len(drivers),
     total_passengers |-> Len(passengers),
     matched_passengers |-> Cardinality(MatchedPassengers),
     full_cars |-> CarsWith(MAX_CAPACITY),
     active_cars |-> ActiveCars,
     fleet_occupancy |-> Percent(SeatsUsed(1), Len(drivers) * MAX_CAPACITY),
     total_revenue |-> TotalRevenue(1)]

PrintMatchingResults ==
  /\ pc = "done"
  /\ stats' = PrintMatchingResultsStats
  /\ pc' = "reported"
  /\ UNCHANGED <<MAX_CAPACITY, drivers, passengers, Driver, Passenger,
                 match_details, di, candidates, selected, si, runs, mode, first,
                 drivers_in>>

\* mutant of the export: it empties each passenger's rejection analysis as it
\* copies it out
ExportVisualizationData_Draining ==
  /\ pc = "done"
  /\ stats' = ExportVisualizationDataStats
  /\ pc' = "reported"
  /\ Passenger' = [p \in DOMAIN Passenger |->
                     [Passenger[p] EXCEPT !.rejection_reasons = <<>>]]
  /\ UNCHANGED <<MAX_CAPACITY, drivers, passengers, Driver,
                 match_details, di, candidates, selected, si, runs, mode, first,
                 drivers_in>>

ExportVisualizationData ==
  /\ pc = "done"
  /\ stats' = ExportVisualizationDataStats
  /\ pc' = "reported"
  /\ UNCHANGED <<MAX_CAPACITY, drivers, passengers, Driver, Passenger,
                 match_details, di, candidates, selected, si, runs, mode, first,
                 drivers_in>>

Next ==
  \/ Precompute
  \/ Shuffle
  \/ SkipDriver
  \/ BuildCandidates
  \/ Assign
  \/ Finish
  \/ Rerun
  \/ PrintMatchingResults
  \/ ExportVisualizationData

Spec == Init /\ [][Next]_vars

\* the engine is one sequential thread: a call that has a next step takes it
EngineStep ==
  \/ Precompute
  \/ Shuffle
  \/ SkipDriver
  \/ BuildCandidates
  \/ Assign
  \/ Finish

SpecLive == InitLive /\ [][Next]_vars /\ WF_vars(EngineStep)

\* the same program under a harness that may also run the engine again on a
\* rebuilt, identical population
NextTwice ==
  \/ Next
  \/ Restart

SpecTwice == Init /\ [][NextTwice]_vars

\* ======================= ver1/simulation.py =======================
\* the first version of the engine: no rejection analysis, no stored distances
\* or fares, no match records; the same pools, shuffle, ranking and slice
NewPassengerVer1(uid, origin, dest, schedule) ==
  [id |-> uid, origin |-> origin, dest |-> dest, schedule |-> schedule,
   matched_driver |-> None]

NewDriverVer1(uid, origin, dest, schedule) ==
  [id |-> uid, origin |-> origin, dest |-> dest, schedule |-> schedule,
   capacity |-> MAX_CAPACITY, passengers |-> <<>>]

InitVer1 ==
  /\ MAX_CAPACITY \in CapacityChoices
  /\ \E nd \in 0..NumDrivers :
       /\ drivers = [i \in 1..nd |-> i]
       /\ drivers_in = [i \in 1..nd |-> i]
       /\ \E din \in [1..nd -> DriverInputs] :
            Driver = [d \in 1..nd |->
                        NewDriverVer1(d - 1, din[d].origin, din[d].dest,
                                      din[d].schedule)]
  /\ \E np \in 0..NumPassengers :
       /\ passengers = [i \in 1..np |-> i]
       /\ \E pin \in [1..np -> PassengerInputs] :
            Passenger = [p \in 1..np |->
                           NewPassengerVer1(p - 1, pin[p].origin, pin[p].dest,
                                            pin[p].schedule)]
  /\ match_details = <<>>
  /\ pc = "ver1_shuffle"
  /\ di = 1
  /\ candidates = <<>>
  /\ selected = <<>>
  /\ si = 1
  /\ runs = 0
  /\ mode = "first"
  /\ first = [drivers |-> <<>>, match_details |-> <<>>, Driver |-> <<>>,
              Passenger |-> <<>>]
  /\ stats = [fn |-> "none", outcome |-> "none"]

\* ver1 line 74
ShuffleVer1 ==
  /\ pc = "ver1_shuffle"
  /\ \E perm \in Permutations(1..Len(drivers)) :
       drivers' = [i \in 1..Len(drivers) |-> drivers[perm[i]]]
  /\ pc' = "ver1_loop"
  /\ di' = 1
  /\ UNCHANGED <<MAX_CAPACITY, passengers, Driver, Passenger, match_details,
                 candidates, selected, si, runs, mode, first,
                 drivers_in, stats>>

\* ver1 lines 77-78
SkipDriverVer1 ==
  /\ pc = "ver1_loop"
  /\ di <= Len(drivers)
  /\ Driver[drivers[di]].capacity = 0
  /\ di' = di + 1
  /\ UNCHANGED <<MAX_CAPACITY, drivers, passengers, Driver, Passenger,
                 match_details, pc, candidates, selected, si, runs, mode, first,
                 drivers_in, stats>>

\* ver1 lines 83-98: the filter of one passenger
IsCandidateVer1(d, p) ==
  /\ ~(p.matched_driver # None)
  /\ ~(haversine(d.origin, p.origin) > SEARCH_RADIUS_KM)
  /\ ~(haversine(d.dest, p.dest) > SEARCH_RADIUS_KM)
  /\ ~(d.schedule # p.schedule)

\* ver1 lines 81-100
RECURSIVE CollectCandidatesVer1(_, _)
CollectCandidatesVer1(d, i) ==
  IF i > Len(passengers) THEN <<>>
  ELSE LET p == Passenger[passengers[i]] IN
       (IF IsCandidateVer1(d, p)
          THEN << <<passengers[i], haversine(d.origin, p.origin),
                    haversine(d.dest, p.dest)>> >>
          ELSE <<>>)
       \o CollectCandidatesVer1(d, i + 1)

\* ver1 lines 81-110: candidates, sort, slice
BuildCandidatesVer1 ==
  /\ pc = "ver1_loop"
  /\ di <= Len(drivers)
  /\ Driver[drivers[di]].capacity # 0
  /\ LET d == Driver[drivers[di]]
         ranked == SortCandidates(CollectCandidatesVer1(d, 1))
         sel == Slice(ranked, d.capacity)
     IN /\ candidates' = ranked
        /\ selected' = sel
        /\ si' = 1
        /\ IF sel = <<>>
             THEN pc' = "ver1_loop" /\ di' = di + 1
             ELSE pc' = "ver1_assign" /\ di' = di
  /\ UNCHANGED <<MAX_CAPACITY, drivers, passengers, Driver, Passenger,
                 match_details, runs, mode, first,
                 drivers_in, stats>>

\* ver1 lines 112-116: one assignment (ride_cost, line 120, is computed and dropped)
AssignVer1 ==
  /\ pc = "ver1_assign"
  /\ si <= Len(selected)
  /\ LET dh == drivers[di]
         ph == selected[si][1]
     IN /\ Passenger' = [Passenger EXCEPT ![ph].matched_driver = dh]
        /\ Driver' = [Driver EXCEPT ![dh] = AssignDriver(@, ph)]
  /\ IF si = Len(selected)
       THEN pc' = "ver1_loop" /\ di' = di + 1
       ELSE pc' = "ver1_assign" /\ di' = di
  /\ si' = si + 1
  /\ UNCHANGED <<MAX_CAPACITY, drivers, passengers, match_details, candidates,
                 selected, runs, mode, first, drivers_in, stats>>

\* the end of ver1's for loop: the function returns None
FinishVer1 ==
  /\ pc = "ver1_loop"
  /\ di > Len(drivers)
  /\ pc' = "ver1_done"
  /\ runs' = runs + 1
  /\ UNCHANGED <<MAX_CAPACITY, drivers, passengers, Driver, Passenger,
                 match_details, di, candidates, selected, si, mode, first,
                 drivers_in, stats>>

\* a further call of ver1's match_algorithm on the same lists
RerunVer1 ==
  /\ pc = "ver1_done"
  /\ runs < MaxRuns
  /\ pc' = "ver1_shuffle"
  /\ di' = 1
  /\ candidates' = <<>>
  /\ selected' = <<>>
  /\ si' = 1
  /\ mode' = "rerun"
  /\ drivers_in' = drivers
  /\ UNCHANGED <<MAX_CAPACITY, drivers, passengers, Driver, Passenger,
                 match_details, runs, first, stats>>

NextVer1 ==
  \/ ShuffleVer1
  \/ SkipDriverVer1
  \/ BuildCandidatesVer1
  \/ AssignVer1
  \/ FinishVer1
  \/ RerunVer1

SpecVer1 == InitVer1 /\ [][NextVer1]_vars

\* ======================= properties =======================
DriverHandles == DOMAIN Driver
PassengerHandles == DOMAIN Passenger

Matched(p) == Passenger[p].matched_driver # None
IndexOf(dh) == CHOOSE i \in 1..Len(drivers) : drivers[i] = dh
SchedulesOverlap(dh, ph) ==
  \E delta \in {-1, 0, 1} : Driver[dh].schedule = Passenger[ph].schedule + delta
\* the verdict stored for driver dh in passenger ph's rejection analysis
EntriesFor(dh, ph) ==
  {i \in DOMAIN Passenger[ph].rejection_reasons :
     Passenger[ph].rejection_reasons[i].driver_id = Driver[dh].id}

\* the step that replaces the population by newly constructed objects
Rebuilt == pc = "done" /\ mode' = "restart"

SeatsWithinCapacity ==
  \A d \in DriverHandles :
    /\ Len(Driver[d].passengers) <= MAX_CAPACITY
    /\ Driver[d].capacity >= 0

\* C1: at every point of every run and for every driver order, no driver carries
\* more passengers than its original capacity (MAX_CAPACITY at construction), its
\* remaining capacity never goes below 0, and no step on the same objects
\* increases it.
C1_CapacityNeverExceeded ==
  /\ []SeatsWithinCapacity
  /\ [][~Rebuilt =>
          \A d \in DriverHandles : Driver'[d].capacity <= Driver[d].capacity]_vars
\* a driver is full while its turn had more candidates than seats
C1_Witness ==
  /\ pc = "loop"
  /\ di > 1
  /\ Driver[drivers[di - 1]].capacity = 0
  /\ Len(Driver[drivers[di - 1]].passengers) = MAX_CAPACITY
  /\ Len(candidates) > Len(selected)
  /\ Len(selected) > 0

\* C2: once a passenger's matched_driver is set it is never cleared or changed by
\* any later step of the call, whatever drivers are processed afterwards (so it
\* goes from None to a driver at most once).
C2_MatchIsFinal ==
  [][~Rebuilt =>
       \A p \in PassengerHandles :
         Matched(p) => Passenger'[p].matched_driver = Passenger[p].matched_driver]_vars
\* a matched passenger was passed over by a later driver that is compatible with it
\* and still had a free seat
C2_Witness ==
  /\ pc = "done"
  /\ mode = "first"
  /\ \E p \in PassengerHandles, d \in DriverHandles :
       /\ Matched(p)
       /\ Passenger[p].matched_driver # d
       /\ IndexOf(d) > IndexOf(Passenger[p].matched_driver)
       /\ Driver[d].capacity > 0
       /\ haversine(Driver[d].origin, Passenger[p].origin) <= SEARCH_RADIUS_KM
       /\ haversine(Driver[d].dest, Passenger[p].dest) <= SEARCH_RADIUS_KM
       /\ SchedulesOverlap(d, p)

\* C3: every match record satisfies the hard constraints: its pickup distance and
\* its drop-off distance are at most SEARCH_RADIUS_KM and the schedules of its
\* driver and passenger differ by at most one hour.
C3_ConstraintSoundness ==
  \A i \in 1..Len(match_details) :
    LET r == match_details[i] IN
      /\ r.pickup_dist <= SEARCH_RADIUS_KM
      /\ r.dropoff_dist <= SEARCH_RADIUS_KM
      /\ SchedulesOverlap(r.driver, r.passenger)
\* a match exactly at all three thresholds
C3_Witness ==
  \E i \in 1..Len(match_details) :
    LET r == match_details[i] IN
      /\ r.pickup_dist = SEARCH_RADIUS_KM
      /\ r.dropoff_dist = SEARCH_RADIUS_KM
      /\ Driver[r.driver].schedule # Passenger[r.passenger].schedule

\* C4: for every driver, capacity + len(passengers) = MAX_CAPACITY before the call,
\* after each completed assignment and after the call returns.
C4_SeatAccounting ==
  \A d \in DriverHandles :
    Driver[d].capacity + Len(Driver[d].passengers) = MAX_CAPACITY
\* between two assignments of one driver's turn
C4_Witness ==
  /\ pc = "assign"
  /\ si > 1
  /\ Len(Driver[drivers[di]].passengers) = si - 1

\* C5: within one driver's turn every selected candidate has a combined distance
\* (pickup + drop-off) no larger than that of every candidate of the same turn
\* that was not selected.
C5_RankCorrectness ==
  \A i \in 1..Len(selected), j \in 1..Len(candidates) :
    (\A k \in 1..Len(selected) : selected[k][1] # candidates[j][1])
      => SortKey(selected[i]) <= SortKey(candidates[j])
\* seats ran out, a left-out candidate is strictly farther, and the ranking moved
\* a later passenger of the pool in front of an earlier one
C5_Witness ==
  /\ pc = "assign"
  /\ Len(candidates) > Len(selected)
  /\ SortKey(selected[Len(selected)]) < SortKey(candidates[Len(candidates)])
  /\ \E i, j \in 1..Len(candidates) : i < j /\ candidates[i][1] > candidates[j][1]

\* the fare the specification prescribes: PRICE_BASE / MAX_CAPACITY + PRICE_BASE * MARKUP_PERCENT
PrescribedFare ==
  RatAdd(Rat(PRICE_BASE, MAX_CAPACITY), RatMul(Rat(PRICE_BASE, 1), MARKUP_PERCENT))

\* C6: every match record's fare and every matched passenger's fare equal
\* PRICE_BASE / MAX_CAPACITY + PRICE_BASE * MARKUP_PERCENT for the configured
\* MAX_CAPACITY, whatever the distances; an unmatched passenger's fare is 0.
C6_FareFormula ==
  /\ \A i \in 1..Len(match_details) : RatEq(match_details[i].fare, PrescribedFare)
  /\ \A p \in PassengerHandles :
       IF Matched(p) THEN RatEq(Passenger[p].fare, PrescribedFare)
       ELSE RatEq(Passenger[p].fare, Rat(0, 1))

SeqRange(q) == {q[i] : i \in DOMAIN q}
DriverWithId(uid) == CHOOSE d \in DriverHandles : Driver[d].id = uid

\* C8: every stored verdict carries exactly one reason per failing rule and
\* nothing else: the origin reason iff the pickup distance exceeds the radius,
\* the destination reason iff the drop-off distance exceeds it, the schedule
\* reason iff the schedules differ by more than one hour; is_compatible iff
\* there is no reason.
C8_VerdictReasons ==
  \A p \in PassengerHandles :
    \A i \in DOMAIN Passenger[p].rejection_reasons :
      LET e == Passenger[p].rejection_reasons[i]
          d == Driver[DriverWithId(e.driver_id)]
          rs == SeqRange(e.reasons)
      IN /\ ("Origin too far" \in rs)
              <=> ~(haversine(d.origin, Passenger[p].origin) <= SEARCH_RADIUS_KM)
         /\ ("Destination too far" \in rs)
              <=> ~(haversine(d.dest, Passenger[p].dest) <= SEARCH_RADIUS_KM)
         /\ ("Schedule mismatch" \in rs) <=> ~SchedulesOverlap(DriverWithId(e.driver_id), p)
         /\ rs \subseteq {"Origin too far", "Destination too far", "Schedule mismatch"}
         /\ Len(e.reasons) = Cardinality(rs)
         /\ e.is_compatible <=> (e.reasons = <<>>)
\* one verdict fails all three rules, another passes with every value exactly at
\* its threshold
C8_Witness ==
  \E p, q \in PassengerHandles :
    /\ \E i \in DOMAIN Passenger[p].rejection_reasons :
         Len(Passenger[p].rejection_reasons[i].reasons) = 3
    /\ \E i \in DOMAIN Passenger[q].rejection_reasons :
         LET e == Passenger[q].rejection_reasons[i] IN
           /\ e.is_compatible
           /\ e.pickup_distance = SEARCH_RADIUS_KM
           /\ e.dropoff_distance = SEARCH_RADIUS_KM
           /\ Driver[DriverWithId(e.driver_id)].schedule # Passenger[q].schedule

\* C9: when a driver's candidate list is built, an unmatched passenger is put in
\* it if and only if the stored verdict for that (driver, passenger) pair has
\* is_compatible = true.
C9_FilterAgreesWithVerdict ==
  [][(pc = "loop" /\ di <= Len(drivers) /\ Driver[drivers[di]].capacity # 0)
       => \A p \in PassengerHandles :
            ~Matched(p) =>
              ((\E k \in 1..Len(candidates') : candidates'[k][1] = p)
                 <=> (\E i \in EntriesFor(drivers[di], p) :
                        Passenger[p].rejection_reasons[i].is_compatible))]_vars
\* a list was just built that holds one unmatched passenger and leaves out another
C9_Witness ==
  /\ pc = "assign"
  /\ si = 1
  /\ \E p \in PassengerHandles :
       ~Matched(p) /\ \A k \in 1..Len(candidates) : candidates[k][1] # p

HasFlag(e) == "matched" \in DOMAIN e
\* the entry e of passenger p is flagged as the claim describes
FlaggedAsClaimed(p, e) ==
  /\ HasFlag(e)
  /\ e.matched <=> (Matched(p) /\ e.driver_id = Driver[Passenger[p].matched_driver].id)

\* C10 as stated: after the call returns, every entry of every passenger's
\* rejection analysis carries a matched flag, true for the matched driver's
\* entry, false for every other entry and for all entries of an unmatched
\* passenger.
C10_EveryEntryFlagged ==
  pc = "done" =>
    \A p \in PassengerHandles :
      \A i \in DOMAIN Passenger[p].rejection_reasons :
        FlaggedAsClaimed(p, Passenger[p].rejection_reasons[i])

\* C10 amended: after the call returns, every entry of a matched passenger's
\* rejection analysis carries a matched flag, true for the matched driver's
\* entry and false for every other; the entries of an unmatched passenger carry
\* no matched flag at all.
C10_MatchedPassengersFlagged ==
  pc = "done" =>
    \A p \in PassengerHandles :
      \A i \in DOMAIN Passenger[p].rejection_reasons :
        IF Matched(p)
          THEN FlaggedAsClaimed(p, Passenger[p].rejection_reasons[i])
          ELSE ~HasFlag(Passenger[p].rejection_reasons[i])
\* the call returned with a matched and an unmatched passenger
C10_Witness ==
  /\ pc = "done"
  /\ \E p, q \in PassengerHandles : Matched(p) /\ ~Matched(q)

\* C11: after the call returns, every passenger's rejection analysis holds exactly
\* one verdict per driver of the pool (as many entries as drivers, none missing
\* or duplicated), in the order the driver list had when it was passed in.
C11_OneVerdictPerDriver ==
  pc = "done" =>
    \A p \in PassengerHandles :
      /\ Len(Passenger[p].rejection_reasons) = Len(drivers)
      /\ \A d \in DriverHandles : Cardinality(EntriesFor(d, p)) = 1
      /\ \A i \in DOMAIN Passenger[p].rejection_reasons :
           Passenger[p].rejection_reasons[i].driver_id = Driver[drivers_in[i]].id
\* a call returned whose input order was not id order and whose shuffle changed it,
\* with a driver that is compatible with a passenger
C11_Witness ==
  /\ pc = "done"
  /\ drivers # drivers_in
  /\ drivers_in[1] # 1
  /\ \E p \in PassengerHandles :
       \E i \in DOMAIN Passenger[p].rejection_reasons :
         Passenger[p].rejection_reasons[i].is_compatible

\* the turn of driver drivers[di - 1] has just ended; it began with 2 free seats
\* and had three candidates
TwoSeatsThreeCandidates ==
  /\ pc = "loop"
  /\ di > 1
  /\ mode = "first"
  /\ MAX_CAPACITY = 2
  /\ Len(candidates) = 3

\* what the scenario says of the two nearest candidates and the driver
TwoNearestMatched ==
  LET d == drivers[di - 1] IN
    /\ Driver[d].passengers = <<candidates[1][1], candidates[2][1]>>
    /\ Passenger[candidates[1][1]].matched_driver = d
    /\ Passenger[candidates[2][1]].matched_driver = d
    /\ SortKey(candidates[1]) <= SortKey(candidates[3])
    /\ SortKey(candidates[2]) <= SortKey(candidates[3])
    /\ Driver[d].capacity = 0
    /\ Passenger[candidates[3][1]].matched_driver = None

\* the verdict stored for the turn's driver in the third candidate's analysis
ThirdVerdicts ==
  {Passenger[candidates[3][1]].rejection_reasons[i] :
     i \in EntriesFor(drivers[di - 1], candidates[3][1])}

\* C12 as stated: a driver with capacity 2 and three compatible candidates takes
\* the two with the smallest combined distance and ends at capacity 0; the third
\* stays unmatched with a recorded reason for that driver.
C12_ThirdHasCapacityReason ==
  TwoSeatsThreeCandidates =>
    /\ TwoNearestMatched
    /\ \A v \in ThirdVerdicts : v.reasons # <<>>

\* C12 amended: a driver with capacity 2 and three compatible candidates takes the
\* two with the smallest combined distance and ends at capacity 0; the third is
\* left unmatched by that turn, and its recorded verdict for that driver has no
\* reason at all (empty reasons, is_compatible true).
C12_ThirdLeftWithoutReason ==
  TwoSeatsThreeCandidates =>
    /\ TwoNearestMatched
    /\ ThirdVerdicts # {}
    /\ \A v \in ThirdVerdicts : v.reasons = <<>> /\ v.is_compatible
\* the scenario, with the third candidate strictly farther than the second
C12_Witness ==
  /\ TwoSeatsThreeCandidates
  /\ SortKey(candidates[1]) < SortKey(candidates[2])
  /\ SortKey(candidates[2]) < SortKey(candidates[3])

\* C13: computing the aggregate statistics on a population with zero drivers or
\* zero passengers yields a defined result, never a division by zero.
C13_StatsDefined ==
  (pc = "reported" /\ (Len(drivers) = 0 \/ Len(passengers) = 0))
    => stats.outcome = "ok"

\* the pair satisfies the three rules
Compatible(d, p) ==
  /\ haversine(Driver[d].origin, Passenger[p].origin) <= SEARCH_RADIUS_KM
  /\ haversine(Driver[d].dest, Passenger[p].dest) <= SEARCH_RADIUS_KM
  /\ SchedulesOverlap(d, p)

Untouched(p) ==
  /\ Passenger[p].matched_driver = None
  /\ Passenger[p].pickup_distance = None
  /\ Passenger[p].dropoff_distance = None
  /\ RatEq(Passenger[p].fare, Rat(0, 1))

\* C14: the engine has no error outcome: whatever the input (empty lists, no
\* compatible pair) every position of the call has a defined next step until it
\* returns (each index it uses is inside its list, each object it names exists);
\* on return a passenger that no driver is compatible with, and every unmatched
\* passenger, has matched_driver None, both distances None and fare 0; a driver
\* that no passenger is compatible with has an empty passengers list and its
\* capacity unchanged; without any compatible pair the returned list is empty.
C14_NoErrorOutcome ==
  /\ pc \in {"precompute", "shuffle", "loop", "assign", "done", "reported"}
  /\ pc = "loop" => di \in 1..(Len(drivers) + 1)
  /\ pc = "assign" =>
       /\ di \in 1..Len(drivers)
       /\ si \in 1..Len(selected)
       /\ drivers[di] \in DriverHandles
       /\ selected[si][1] \in PassengerHandles
  /\ pc = "done" =>
       /\ \A p \in PassengerHandles :
            /\ (\A d \in DriverHandles : ~Compatible(d, p)) => Untouched(p)
            /\ ~Matched(p) => Untouched(p)
       /\ \A d \in DriverHandles :
            (\A p \in PassengerHandles : ~Compatible(d, p))
              => (Driver[d].passengers = <<>> /\ Driver[d].capacity = MAX_CAPACITY)
       /\ (\A d \in DriverHandles, p \in PassengerHandles : ~Compatible(d, p))
            => match_details = <<>>
\* a call returned with one passenger matched, another passenger compatible with
\* no driver, and a driver compatible with no passenger
C14_Witness ==
  /\ pc = "done"
  /\ match_details # <<>>
  /\ \E p \in PassengerHandles : \A d \in DriverHandles : ~Compatible(d, p)
  /\ \E d \in DriverHandles : \A p \in PassengerHandles : ~Compatible(d, p)

\* C15: every call terminates: from its start the engine reaches its return; the
\* driver loop moves forward one list position at a time, never back, the list
\* holds each driver once, and the return happens right after the last position.
C15_Terminates ==
  /\ (pc = "precompute") ~> (pc = "done")
  /\ [](\A i, j \in 1..Len(drivers) : drivers[i] = drivers[j] => i = j)
  /\ [][(pc \in {"loop", "assign"} /\ pc' \in {"loop", "assign"})
          => (di' = di \/ (di' = di + 1 /\ (pc = "loop" \/ si = Len(selected))))]_vars
  /\ [][(pc # "done" /\ pc' = "done") => di = Len(drivers) + 1]_vars
\* a second call returned although it met a driver without a free seat
C15_Witness ==
  /\ pc = "done"
  /\ mode = "rerun"
  /\ \E d \in DriverHandles : Driver[d].capacity = 0
  /\ Len(drivers) = NumDrivers

\* the records of driver d, in list order
RecordsOf(d) ==
  LET IsOfDriver(r) == r.driver = d IN SelectSeq(match_details, IsOfDriver)

\* C16: the match records are in assignment order: a record of a driver processed
\* earlier (in the shuffled order) comes before those of a driver processed later,
\* so one driver's records are contiguous; within one driver they ascend in
\* combined distance; and the driver's passengers list ends with the passengers
\* of its records in the same order (on a fresh population it is exactly them).
C16_RecordsInAssignmentOrder ==
  /\ \A i, j \in 1..Len(match_details) :
       i < j =>
         LET a == match_details[i]
             b == match_details[j]
         IN /\ IndexOf(a.driver) <= IndexOf(b.driver)
            /\ a.driver = b.driver
                 => a.pickup_dist + a.dropoff_dist <= b.pickup_dist + b.dropoff_dist
  /\ \A d \in DriverHandles :
       LET recs == RecordsOf(d)
           ps == Driver[d].passengers
       IN /\ Len(recs) <= Len(ps)
          /\ mode # "rerun" => Len(recs) = Len(ps)
          /\ \A k \in 1..Len(recs) : recs[k].passenger = ps[Len(ps) - Len(recs) + k]
\* the driver with the higher id was served first, and one driver has two records
\* of different combined distance
C16_Witness ==
  /\ pc = "done"
  /\ \E i, j \in 1..Len(match_details) :
       i < j /\ Driver[match_details[i].driver].id > Driver[match_details[j].driver].id
  /\ \E i, j \in 1..Len(match_details) :
       /\ i < j
       /\ match_details[i].driver = match_details[j].driver
       /\ match_details[i].pickup_dist + match_details[i].dropoff_dist
            < match_details[j].pickup_dist + match_details[j].dropoff_dist

\* the sum of fare over the match records from index i on
RECURSIVE RecordsRevenue(_)
RecordsRevenue(i) ==
  IF i > Len(match_details) THEN Rat(0, 1)
  ELSE RatAdd(match_details[i].fare, RecordsRevenue(i + 1))

Returned == pc \in {"done", "reported"}

\* C17 as stated: after any call of match_algorithm, matched + unmatched = total,
\* the number of matched passengers = the sum of len(d.passengers) =
\* len(match_details), and the revenue over matched passengers = the revenue over
\* the match records.
C17_CountsConsistentAnyCall ==
  Returned =>
    /\ Cardinality(MatchedPassengers) + Cardinality(UnmatchedPassengers)
         = Len(passengers)
    /\ Cardinality(MatchedPassengers) = SeatsUsed(1)
    /\ Cardinality(MatchedPassengers) = Len(match_details)
    /\ RatEq(TotalRevenue(1), RecordsRevenue(1))

\* C17: after any call, matched + unmatched = total and the number of matched
\* passengers = the sum of len(d.passengers); the returned list never has more
\* records than there are matched passengers; and when the call was made on a
\* population with nobody matched yet, len(match_details) equals the number of
\* matched passengers and the revenue over matched passengers equals the revenue
\* over the match records.
C17_CountsConsistent ==
  Returned =>
    /\ Cardinality(MatchedPassengers) + Cardinality(UnmatchedPassengers)
         = Len(passengers)
    /\ Cardinality(MatchedPassengers) = SeatsUsed(1)
    /\ Len(match_details) <= Cardinality(MatchedPassengers)
    /\ mode # "rerun" =>
         /\ Cardinality(MatchedPassengers) = Len(match_details)
         /\ RatEq(TotalRevenue(1), RecordsRevenue(1))
\* a first call that matched two passengers to one driver and left one unmatched
C17_Witness ==
  /\ Returned
  /\ mode # "rerun"
  /\ Len(match_details) >= 2
  /\ UnmatchedPassengers # {}
  /\ \E d \in DriverHandles : Len(Driver[d].passengers) = 2

\* C18: a step of export_visualization_data or print_matching_results leaves
\* every driver (capacity, passengers list) and every passenger (matched_driver,
\* distances, fare, rejection analysis) as it was, and the pools and the match
\* records too.
C18_AggregatorsReadOnly ==
  [][(pc = "done" /\ pc' = "reported")
       => /\ Driver' = Driver
          /\ Passenger' = Passenger
          /\ drivers' = drivers
          /\ passengers' = passengers
          /\ match_details' = match_details]_vars
\* the export has run on a population with a matched passenger and a passenger
\* holding a non-empty rejection analysis
C18_Witness ==
  /\ pc = "reported"
  /\ stats.fn = "export_visualization_data"
  /\ stats.outcome = "ok"
  /\ \E p \in PassengerHandles : Passenger[p].matched_driver # None
  /\ \E p \in PassengerHandles : Passenger[p].rejection_reasons # <<>>

Min(a, b) == IF a <= b THEN a ELSE b

\* C19: in a driver's turn with c free seats on entry and k candidates, the
\* selection is the first min(c, k) entries of the ranked candidate list; the
\* assignments made so far in the turn (all of them once the turn is over) are
\* exactly the leading entries of that selection, in order, each with one match
\* record at the end of match_details, one entry at the end of the driver's
\* passengers list and one seat taken; the driver has no other record in this call.
C19_TurnTakesFirstMin ==
  (selected # <<>> /\ pc \in {"assign", "loop", "done", "reported"}) =>
    LET n == Len(selected)
        taken == IF pc = "assign" THEN si - 1 ELSE n
        m == Len(match_details)
        d == IF pc = "assign" THEN drivers[di] ELSE match_details[m].driver
        c == Driver[d].capacity + taken
        ps == Driver[d].passengers
    IN /\ n = Min(c, Len(candidates))
       /\ selected = SubSeq(candidates, 1, n)
       /\ taken <= m
       /\ taken <= Len(ps)
       /\ \A k \in 1..taken :
            /\ match_details[m - taken + k] =
                 MatchRecord(d, selected[k][1], selected[k][2], selected[k][3])
            /\ ps[Len(ps) - taken + k] = selected[k][1]
            /\ Passenger[selected[k][1]].matched_driver = d
       /\ Len(RecordsOf(d)) = taken
\* a finished turn with three candidates for two seats, and the one left out was
\* not the last of the pool
C19_Witness ==
  /\ pc = "loop"
  /\ Len(candidates) = 3
  /\ Len(selected) = 2
  /\ Len(match_details) = 2
  /\ candidates[3][1] # passengers[Len(passengers)]

\* the position of passenger ph in the passenger pool
PoolIndex(ph) == CHOOSE i \in 1..Len(passengers) : passengers[i] = ph

\* C20: of two candidates of one driver's turn with equal combined distance, the
\* one earlier in the passenger pool is ranked first; hence when one of them is
\* selected and the other is not, the selected one is the earlier one.
C20_TiesKeepPoolOrder ==
  /\ \A i, j \in 1..Len(candidates) :
       (i < j /\ SortKey(candidates[i]) = SortKey(candidates[j]))
         => PoolIndex(candidates[i][1]) < PoolIndex(candidates[j][1])
  /\ \A i \in 1..Len(selected), j \in 1..Len(candidates) :
       (/\ \A k \in 1..Len(selected) : selected[k][1] # candidates[j][1]
        /\ SortKey(selected[i]) = SortKey(candidates[j]))
         => PoolIndex(selected[i][1]) < PoolIndex(candidates[j][1])
\* one seat was left for two candidates of equal combined distance, after a
\* strictly nearer candidate that comes later in the pool took the first seat;
\* the earlier of the two has been matched
C20_Witness ==
  /\ pc = "loop"
  /\ Len(candidates) = 3
  /\ Len(selected) = 2
  /\ SortKey(candidates[1]) < SortKey(candidates[2])
  /\ SortKey(candidates[2]) = SortKey(candidates[3])
  /\ PoolIndex(candidates[1][1]) > PoolIndex(candidates[2][1])
  /\ Passenger[candidates[2][1]].matched_driver # None
  /\ Passenger[candidates[3][1]].matched_driver = None

\* every match record made on this population: those of the earlier call, kept by
\* its caller, followed by those of the current call
AllRecords == IF mode = "rerun" THEN first.match_details \o match_details
              ELSE match_details

RecordsOfPassenger(p) == {i \in 1..Len(AllRecords) : AllRecords[i].passenger = p}

\* C21: a matched passenger's pickup_distance and dropoff_distance are the
\* origin-origin and destination-destination distances to its matched driver and
\* equal those of its one match record; an unmatched passenger's are both None;
\* and the two fields are written once: a step changes them only from None, only
\* together with matched_driver, in an assignment step, and never afterwards.
C21_DistancesWrittenOnce ==
  /\ [](\A p \in PassengerHandles :
          IF Matched(p)
            THEN LET d == Passenger[p].matched_driver
                 IN /\ Passenger[p].pickup_distance
                         = haversine(Driver[d].origin, Passenger[p].origin)
                    /\ Passenger[p].dropoff_distance
                         = haversine(Driver[d].dest, Passenger[p].dest)
                    /\ Cardinality(RecordsOfPassenger(p)) = 1
                    /\ \A i \in RecordsOfPassenger(p) :
                         /\ AllRecords[i].driver = d
                         /\ AllRecords[i].pickup_dist = Passenger[p].pickup_distance
                         /\ AllRecords[i].dropoff_dist = Passenger[p].dropoff_distance
            ELSE /\ Passenger[p].pickup_distance = None
                 /\ Passenger[p].dropoff_distance = None
                 /\ RecordsOfPassenger(p) = {})
  /\ [][\A p \in PassengerHandles :
          (\/ Passenger'[p].pickup_distance # Passenger[p].pickup_distance
           \/ Passenger'[p].dropoff_distance # Passenger[p].dropoff_distance)
            => /\ pc = "assign"
               /\ ~Matched(p)
               /\ Passenger[p].pickup_distance = None
               /\ Passenger[p].dropoff_distance = None
               /\ Passenger'[p].matched_driver = drivers[di]]_vars
\* after a second call on the same pools: a matched passenger whose two distances
\* differ, next to an unmatched one
C21_Witness ==
  /\ pc = "done"
  /\ mode = "rerun"
  /\ \E p \in PassengerHandles :
       /\ Matched(p)
       /\ Passenger[p].pickup_distance = 1
       /\ Passenger[p].dropoff_distance = 0
  /\ \E p \in PassengerHandles : ~Matched(p)

\* C22: when the driver whose turn it is has capacity 0, the turn is one step that
\* moves on to the next driver and changes no driver, no passenger and no match
\* record.
C22_FullDriverSkipped ==
  [][(pc = "loop" /\ di <= Len(drivers) /\ Driver[drivers[di]].capacity = 0)
       => /\ Driver' = Driver
          /\ Passenger' = Passenger
          /\ match_details' = match_details
          /\ pc' = "loop"
          /\ di' = di + 1]_vars
\* in a second call on the same pools the turn of a full driver has just passed
\* while a passenger compatible with it is still unmatched
C22_Witness ==
  /\ mode = "rerun"
  /\ pc = "loop"
  /\ di > 1
  /\ Driver[drivers[di - 1]].capacity = 0
  /\ Len(Driver[drivers[di - 1]].passengers) = MAX_CAPACITY
  /\ \E p \in PassengerHandles : ~Matched(p) /\ Compatible(drivers[di - 1], p)

\* the passengers the current turn has already assigned
TakenThisTurn == {selected[k][1] : k \in 1..(si - 1)}

\* C23: a driver's candidate list holds exactly the compatible passengers that no
\* driver processed before it has claimed: during a turn the candidates are the
\* passengers compatible with the driver that are unmatched or were assigned in
\* this very turn, and in a call on a fresh population every other matched
\* passenger belongs to a driver earlier in the processing order. (That two
\* orders can therefore give different assignments is the witness.)
C23_CandidatesAreUnclaimed ==
  pc = "assign" =>
    /\ {candidates[j][1] : j \in 1..Len(candidates)}
         = {p \in PassengerHandles :
              Compatible(drivers[di], p) /\ (~Matched(p) \/ p \in TakenThisTurn)}
    /\ mode # "rerun" =>
         \A p \in PassengerHandles :
           (Matched(p) /\ p \notin TakenThisTurn)
             => IndexOf(Passenger[p].matched_driver) < di
\* two calls on identical populations processed the drivers in different orders
\* and a passenger matched in both ended with a different driver
C23_Witness ==
  /\ pc = "done"
  /\ mode = "restart"
  /\ Len(drivers) = 2
  /\ drivers # first.drivers
  /\ \E p \in PassengerHandles :
       /\ Matched(p)
       /\ first.Passenger[p].matched_driver # None
       /\ Passenger[p].matched_driver # first.Passenger[p].matched_driver
       /\ \A d \in DriverHandles : Compatible(d, p)

\* C24: the occupancy counts that print_matching_results prints (drivers with 0,
\* 1, 2, 3 and MAX_CAPACITY passengers) sum to the number of drivers, and
\* active cars = total drivers - empty cars.
C24_HistogramPartitions ==
  (pc = "reported" /\ stats.fn = "print_matching_results" /\ stats.outcome = "ok")
    => /\ stats.empty_cars + stats.cars_with_1 + stats.cars_with_2
            + stats.cars_with_3 + stats.full_cars = stats.total_drivers
       /\ stats.active_cars = stats.total_drivers - stats.empty_cars

\* C25: in ver1 a driver's turn puts into the candidate list every unmatched
\* passenger within both radii whose schedule differs from the driver's by at
\* most one hour.
C25_Ver1OneHourTolerance ==
  [][(pc = "ver1_loop" /\ di <= Len(drivers) /\ Driver[drivers[di]].capacity # 0)
       => \A p \in DOMAIN Passenger :
            (/\ Passenger[p].matched_driver = None
             /\ haversine(Driver[drivers[di]].origin, Passenger[p].origin)
                  <= SEARCH_RADIUS_KM
             /\ haversine(Driver[drivers[di]].dest, Passenger[p].dest)
                  <= SEARCH_RADIUS_KM
             /\ Abs(Driver[drivers[di]].schedule - Passenger[p].schedule) <= 1)
              => \E j \in 1..Len(candidates') : candidates'[j][1] = p]_vars

\* C26: when match_algorithm has returned there is no driver with a free seat and
\* an unmatched passenger compatible with it.
C26_MatchingIsMaximal ==
  Returned =>
    \A d \in DriverHandles, p \in PassengerHandles :
      ~(Driver[d].capacity > 0 /\ ~Matched(p) /\ Compatible(d, p))
\* a first call returned leaving a passenger unmatched next to a compatible but
\* full driver, while another driver kept all its seats
C26_Witness ==
  /\ pc = "done"
  /\ mode = "first"
  /\ \E d \in DriverHandles, p \in PassengerHandles :
       Driver[d].capacity = 0 /\ ~Matched(p) /\ Compatible(d, p)
  /\ \E d \in DriverHandles : Driver[d].capacity = MAX_CAPACITY

\* C27: a passenger is in a driver's passengers list exactly when that driver is
\* its matched_driver; no passenger occurs twice in one list or in two drivers'
\* lists; and each matched passenger has exactly one match record, which names
\* that driver (an unmatched passenger has none).
C27_ViewsAgree ==
  /\ \A d \in DriverHandles, p \in PassengerHandles :
       (\E k \in 1..Len(Driver[d].passengers) : Driver[d].passengers[k] = p)
         <=> Passenger[p].matched_driver = d
  /\ \A d \in DriverHandles :
       /\ \A k \in 1..Len(Driver[d].passengers) :
            Driver[d].passengers[k] \in PassengerHandles
       /\ \A j, k \in 1..Len(Driver[d].passengers) :
            Driver[d].passengers[j] = Driver[d].passengers[k] => j = k
  /\ \A d, e \in DriverHandles :
       d # e => \A j \in 1..Len(Driver[d].passengers),
                   k \in 1..Len(Driver[e].passengers) :
                  Driver[d].passengers[j] # Driver[e].passengers[k]
  /\ \A p \in PassengerHandles :
       IF Matched(p)
         THEN /\ Cardinality(RecordsOfPassenger(p)) = 1
              /\ \A i \in RecordsOfPassenger(p) :
                   AllRecords[i].driver = Passenger[p].matched_driver
         ELSE RecordsOfPassenger(p) = {}
\* both drivers carry passengers and one passenger is left over
C27_Witness ==
  /\ pc = "done"
  /\ Len(drivers) = 2
  /\ \A d \in DriverHandles : Driver[d].passengers # <<>>
  /\ \E d \in DriverHandles : Len(Driver[d].passengers) = 2
  /\ Cardinality(MatchedPassengers) = 3

\* the entries of passenger p's rejection analysis flagged matched == true
FlaggedTrue(p) ==
  {i \in DOMAIN Passenger[p].rejection_reasons :
     /\ HasFlag(Passenger[p].rejection_reasons[i])
     /\ Passenger[p].rejection_reasons[i].matched}

\* C28: driver ids being unique, after the call returns every matched passenger
\* has exactly one rejection-analysis entry flagged matched == true, the one of
\* its matched driver, and that entry has is_compatible == true and no reasons;
\* at no time is an entry with is_compatible == false flagged matched == true.
C28_OneCompatibleEntryFlagged ==
  /\ Returned =>
       \A p \in PassengerHandles :
         Matched(p) =>
           /\ Cardinality(FlaggedTrue(p)) = 1
           /\ \A i \in FlaggedTrue(p) :
                /\ Passenger[p].rejection_reasons[i].driver_id
                     = Driver[Passenger[p].matched_driver].id
                /\ Passenger[p].rejection_reasons[i].is_compatible
                /\ Passenger[p].rejection_reasons[i].reasons = <<>>
  /\ \A p \in PassengerHandles :
       \A i \in FlaggedTrue(p) : Passenger[p].rejection_reasons[i].is_compatible
\* a matched passenger with one flagged entry and one entry of a driver that
\* rejects it
C28_Witness ==
  /\ pc = "done"
  /\ \E p \in PassengerHandles :
       /\ Matched(p)
       /\ Cardinality(FlaggedTrue(p)) = 1
       /\ \E i \in DOMAIN Passenger[p].rejection_reasons :
            /\ ~Passenger[p].rejection_reasons[i].is_compatible
            /\ HasFlag(Passenger[p].rejection_reasons[i])
            /\ ~Passenger[p].rejection_reasons[i].matched

\* C29: throughout and after a second call on the state a first call left, for
\* whatever driver order the second call draws, the match list is empty and every
\* driver (capacity, passengers) and every passenger's matched_driver, distances
\* and fare are as the first call left them.
C29_RerunIdempotent ==
  mode = "rerun" =>
    /\ match_details = <<>>
    /\ Driver = first.Driver
    /\ \A p \in PassengerHandles :
         /\ Passenger[p].matched_driver = first.Passenger[p].matched_driver
         /\ Passenger[p].pickup_distance = first.Passenger[p].pickup_distance
         /\ Passenger[p].dropoff_distance = first.Passenger[p].dropoff_distance
         /\ Passenger[p].fare = first.Passenger[p].fare
\* the second call has returned after drawing another order than the first; one
\* driver is full and a passenger compatible with it is unmatched, another
\* driver has a free seat
C29_Witness ==
  /\ pc = "done"
  /\ mode = "rerun"
  /\ drivers # first.drivers
  /\ \E d \in DriverHandles, p \in PassengerHandles :
       Driver[d].capacity = 0 /\ ~Matched(p) /\ Compatible(d, p)
  /\ \E d \in DriverHandles : Driver[d].capacity > 0

\* the fields of a verdict that the pre-computation writes
VerdictCore(e) ==
  [driver_id |-> e.driver_id, pickup_distance |-> e.pickup_distance,
   dropoff_distance |-> e.dropoff_distance, reasons |-> e.reasons,
   is_compatible |-> e.is_compatible]

\* C30: no step of match_algorithm changes a participant's id, origin,
\* destination or schedule or the set of participants; the driver list is only
\* permuted (and only by the shuffle), the passenger list keeps its order; and
\* after the pre-computation no step of the call changes the number of
\* rejection-analysis entries or an entry's driver, distances, reasons or
\* is_compatible.
C30_FrameOfMatchAlgorithm ==
  [][/\ DOMAIN Driver' = DOMAIN Driver
     /\ DOMAIN Passenger' = DOMAIN Passenger
     /\ \A d \in DOMAIN Driver :
          /\ Driver'[d].id = Driver[d].id
          /\ Driver'[d].origin = Driver[d].origin
          /\ Driver'[d].dest = Driver[d].dest
          /\ Driver'[d].schedule = Driver[d].schedule
     /\ \A p \in DOMAIN Passenger :
          /\ Passenger'[p].id = Passenger[p].id
          /\ Passenger'[p].origin = Passenger[p].origin
          /\ Passenger'[p].dest = Passenger[p].dest
          /\ Passenger'[p].schedule = Passenger[p].schedule
     /\ passengers' = passengers
     /\ Len(drivers') = Len(drivers)
     /\ \A d \in DOMAIN Driver :
          Cardinality({i \in 1..Len(drivers') : drivers'[i] = d})
            = Cardinality({i \in 1..Len(drivers) : drivers[i] = d})
     /\ pc # "shuffle" => drivers' = drivers
     /\ pc \in {"shuffle", "loop", "assign"} =>
          \A p \in DOMAIN Passenger :
            /\ Len(Passenger'[p].rejection_reasons) = Len(Passenger[p].rejection_reasons)
            /\ \A i \in DOMAIN Passenger[p].rejection_reasons :
                 VerdictCore(Passenger'[p].rejection_reasons[i])
                   = VerdictCore(Passenger[p].rejection_reasons[i])]_vars
\* the call has returned with the driver list in another order than it was
\* passed in, a matched passenger and a rejected pair
C30_Witness ==
  /\ pc = "done"
  /\ drivers # drivers_in
  /\ \E p \in PassengerHandles : Matched(p) /\ FlaggedTrue(p) # {}
  /\ \E p \in PassengerHandles :
       \E i \in DOMAIN Passenger[p].rejection_reasons :
         Passenger[p].rejection_reasons[i].reasons # <<>>

====
